---------------------------- MODULE Spec2Model ----------------------------
(***************************************************************************)
(* A model of the retail-data cleaning pipeline: DataCleaning              *)
(* (data_cleaning.py) as driven by main.py.                                *)
(*                                                                         *)
(* A DataFrame is a record [cols, rows]: cols is the ordered sequence of   *)
(* column names, rows the ordered sequence of rows.  A row is a record     *)
(* [idx, src, f]: idx is the pandas index label, f maps each column name   *)
(* to a cell, and src is a history field (the row's position in the frame  *)
(* the caller supplied) that no operation reads or writes.                 *)
(*                                                                         *)
(* A cell is a tagged record:                                              *)
(*   [t |-> "str", v |-> <<c1, ..., cn>>]  a Python str, one character     *)
(*                                         per element                     *)
(*   [t |-> "tok", v |-> "United States"]  a Python str whose characters   *)
(*                                         no operation inspects           *)
(*   [t |-> "na"]                          None / NaN / NaT                *)
(*   [t |-> "ts", y, m, d, tick]           a pandas Timestamp              *)
(*   [t |-> "num", m |-> n, e |-> k]       the float n / 10^k              *)
(***************************************************************************)
EXTENDS Integers, Sequences, FiniteSets, TLC

VARIABLES
    arg,    \* the DataFrame object the caller handed over, as it is now: the
            \* one given to the constructor, then the one given to the last
            \* operation that takes a frame
    data,   \* DataCleaning.data (self.data)
    ret,    \* the DataFrame the last operation returned (NoFrame before any)
    op,     \* the last operation called ("init" before any)
    inp,    \* history: self.data (or the argument) as it was when op was called
    now,    \* pd.Timestamp.now() as read by the last clean_card_data
    exc,    \* the exception the last operation raised ("none" when it returned)
    calls,  \* number of operations called so far
    engine, \* DatabaseConnector.engine: "None", or the credentials its URL
            \* was built from, "RDS" or "LOCAL"
    conn,   \* DatabaseConnector.conn, likewise
    uploaded \* history: the uploads done, each with the table, the db_type
            \* asked for and the credentials of the engine that wrote it

vars == <<arg, data, ret, op, inp, now, exc, calls, engine, conn, uploaded>>

(* ------------------------------ bounds -------------------------------- *)

\* Longest frame the caller supplies.
MaxRows == 2
\* Operations called on one DataCleaning instance.
MaxCalls == 2
\* Longest run of subscriber digits in a generated phone number.
MaxBody == 11

(* ------------------------------ cells --------------------------------- *)

Str(s) == [t |-> "str", v |-> s]
Tok(s) == [t |-> "tok", v |-> s]
NA == [t |-> "na"]
Ts(y, m, d, k) == [t |-> "ts", y |-> y, m |-> m, d |-> d, tick |-> k]

RECURSIVE Num(_, _)
\* The number m / 10^e, written with the least exponent.
Num(m, e) ==
    IF e > 0 /\ m % 10 = 0 THEN Num(m \div 10, e - 1)
    ELSE [t |-> "num", m |-> m, e |-> e]

IsNA(c) == c.t = "na"
IsStr(c) == c.t = "str"

NoFrame == [cols |-> <<>>, rows |-> <<>>, none |-> TRUE]
Frame(cols, rows) == [cols |-> cols, rows |-> rows]
IsFrame(x) == DOMAIN x = {"cols", "rows"}

\* The clock not read yet.
NoTime == [t |-> "na"]

Digits == {"0", "1", "2", "3", "4", "5", "6", "7", "8", "9"}
DigitChar == <<"0", "1", "2", "3", "4", "5", "6", "7", "8", "9">>
DigitVal(c) == CHOOSE n \in 0..9 : DigitChar[n + 1] = c
Whitespace == {" "}

\* The characters of a sequence of small numbers.
Digs(ns) == [i \in DOMAIN ns |-> DigitChar[ns[i] + 1]]

Range(s) == {s[i] : i \in DOMAIN s}

AllDigitsOrDot(s) == \A i \in DOMAIN s : s[i] \in Digits \cup {"."}

RECURSIVE Flatten(_)
Flatten(ss) == IF ss = <<>> THEN <<>> ELSE Head(ss) \o Flatten(Tail(ss))

(* ----------------------- pandas frame operations ---------------------- *)

\* DataFrame.dropna(): drop every row holding a missing value in any column.
dropna(df) ==
    Frame(df.cols,
          SelectSeq(df.rows, LAMBDA r : \A c \in Range(df.cols) : ~IsNA(r.f[c])))

\* DataFrame.dropna(subset=[col])
dropna_subset(df, col) ==
    Frame(df.cols, SelectSeq(df.rows, LAMBDA r : ~IsNA(r.f[col])))

\* DataFrame.reset_index(drop=True): renumber the index 0..n-1.
reset_index(df) ==
    Frame(df.cols,
          [i \in DOMAIN df.rows |-> [df.rows[i] EXCEPT !.idx = i - 1]])

\* df[col] = vals, vals[i] being the value for the i-th row; a new column is
\* appended at the end.
assign_column(df, col, vals) ==
    Frame(IF col \in Range(df.cols) THEN df.cols ELSE Append(df.cols, col),
          [i \in DOMAIN df.rows |->
              [df.rows[i] EXCEPT !.f =
                  [c \in DOMAIN df.rows[i].f \cup {col} |->
                      IF c = col THEN vals[i] ELSE df.rows[i].f[c]]]])

\* df[mask]: the rows whose mask entry is TRUE, in order.
RECURSIVE KeepRows(_, _)
KeepRows(rows, mask) ==
    IF rows = <<>> THEN <<>>
    ELSE (IF Head(mask) THEN <<Head(rows)>> ELSE <<>>)
             \o KeepRows(Tail(rows), Tail(mask))

boolean_index(df, mask) == Frame(df.cols, KeepRows(df.rows, mask))

(* ------------------------- regular expressions ------------------------ *)

\* One element of a pattern: between lo and hi characters of class cls,
\* greedy; grp says whether the element is a capturing group.  cls is
\* "digit" (\d), "nondigit" (\D), "space" (\s) or a literal character.
Item(cls, lo, hi, grp) == [cls |-> cls, lo |-> lo, hi |-> hi, grp |-> grp]
Lit(c) == Item(c, 1, 1, FALSE)
Opt(c) == Item(c, 0, 1, FALSE)
Group(cls, lo, hi) == Item(cls, lo, hi, TRUE)

InClass(ch, cls) ==
    CASE cls = "digit" -> ch \in Digits
      [] cls = "nondigit" -> ch \notin Digits
      [] cls = "space" -> ch \in Whitespace
      [] OTHER -> ch = cls

NoMatch == [ok |-> FALSE, groups |-> <<>>]

\* The longest run of at most hi characters of class cls starting at s[i].
RECURSIVE MaxRun(_, _, _, _)
MaxRun(s, i, cls, hi) ==
    IF hi = 0 \/ i > Len(s) \/ ~InClass(s[i], cls) THEN 0
    ELSE 1 + MaxRun(s, i + 1, cls, hi - 1)

\* re.match of ^pat[k..]$ against s[i..], as Python's backtracking matcher
\* finds it: each element takes as many characters as it can and gives them
\* back one at a time while the rest of the pattern fails.
RECURSIVE MatchFrom(_, _, _, _), TryCount(_, _, _, _, _)
MatchFrom(pat, k, s, i) ==
    IF k > Len(pat)
    THEN (IF i = Len(s) + 1 THEN [ok |-> TRUE, groups |-> <<>>] ELSE NoMatch)
    ELSE TryCount(pat, k, s, i, MaxRun(s, i, pat[k].cls, pat[k].hi))

TryCount(pat, k, s, i, n) ==
    IF n < pat[k].lo THEN NoMatch
    ELSE LET rest == MatchFrom(pat, k + 1, s, i + n)
         IN  IF rest.ok
             THEN [ok |-> TRUE,
                   groups |-> IF pat[k].grp
                              THEN <<SubSeq(s, i, i + n - 1)>> \o rest.groups
                              ELSE rest.groups]
             ELSE TryCount(pat, k, s, i, n - 1)

re_match(pat, s) == MatchFrom(pat, 1, s, 1)

(* --------------------------- clean_user_data -------------------------- *)

\* r'^\+?44\s?\(?0?\)?(\d{2})\D?(\d{4})\D?(\d{0,4})$'
gb_pattern ==
    <<Opt("+"), Lit("4"), Lit("4"), Opt("space"), Opt("("), Opt("0"), Opt(")"),
      Group("digit", 2, 2), Opt("nondigit"), Group("digit", 4, 4),
      Opt("nondigit"), Group("digit", 0, 4)>>

\* r'^\+?1\s?\(?(\d{3})\)?\D?(\d{3})\D?(\d{4})$'
us_pattern ==
    <<Opt("+"), Lit("1"), Opt("space"), Opt("("),
      Group("digit", 3, 3), Opt(")"), Opt("nondigit"), Group("digit", 3, 3),
      Opt("nondigit"), Group("digit", 4, 4)>>

\* r'^\+?49\s?\(?0?(\d{2})\D?(\d{3})\D?(\d{4})$'
de_pattern ==
    <<Opt("+"), Lit("4"), Lit("9"), Opt("space"), Opt("("), Opt("0"),
      Group("digit", 2, 2), Opt("nondigit"), Group("digit", 3, 3),
      Opt("nondigit"), Group("digit", 4, 4)>>

\* re.sub(r'[^0-9+(]', '', phone_number)
clean_number(phone_number) ==
    SelectSeq(phone_number, LAMBDA ch : ch \in Digits \cup {"+", "("})

\* str.strip(): leading and trailing whitespace removed.
RECURSIVE lstrip(_)
lstrip(s) ==
    IF s # <<>> /\ Head(s) \in Whitespace THEN lstrip(Tail(s)) ELSE s

RECURSIVE rstrip(_)
rstrip(s) ==
    IF s # <<>> /\ s[Len(s)] \in Whitespace
    THEN rstrip(SubSeq(s, 1, Len(s) - 1)) ELSE s

strip(s) == lstrip(rstrip(s))

\* len(''.join(match.groups())) == 10
GroupDigits == 10

\* format_phone_number(phone_number, country_code): the canonical string as a
\* "str" cell, or NA for None.
format_phone_number(phone_number, country_code) ==
    LET cn == clean_number(phone_number) IN
    CASE country_code = "GB" ->
            LET m == re_match(gb_pattern, cn) IN
            IF m.ok /\ Len(Flatten(m.groups)) = GroupDigits
            THEN Str(strip(<<"+", "4", "4", " ">> \o m.groups[1] \o <<" ">>
                           \o m.groups[2] \o <<" ">> \o m.groups[3]))
            ELSE NA
      [] country_code = "US" ->
            LET m == re_match(us_pattern, cn) IN
            IF m.ok /\ Len(Flatten(m.groups)) = GroupDigits
            THEN Str(<<"+", "1", " ">> \o m.groups[1] \o <<"-">>
                     \o m.groups[2] \o <<"-">> \o m.groups[3])
            ELSE NA
      [] country_code = "DE" ->
            LET m == re_match(de_pattern, cn) IN
            IF m.ok /\ Len(Flatten(m.groups)) = GroupDigits
            THEN Str(<<"+", "4", "9", " ">> \o m.groups[1] \o <<" ">>
                     \o m.groups[2] \o <<" ">> \o m.groups[3])
            ELSE NA
      [] OTHER -> NA

\* Value of a run of digit characters.
RECURSIVE IntOf(_)
IntOf(ds) ==
    IF ds = <<>> THEN 0
    ELSE 10 * IntOf(SubSeq(ds, 1, Len(ds) - 1)) + DigitVal(ds[Len(ds)])

IsLeap(y) == (y % 4 = 0 /\ y % 100 # 0) \/ y % 400 = 0

DaysInMonth(y, m) ==
    CASE m \in {4, 6, 9, 11} -> 30
      [] m = 2 -> (IF IsLeap(y) THEN 29 ELSE 28)
      [] OTHER -> 31

\* Whether s is 'YYYY-MM-DD' naming a day of the calendar.
IsIsoDate(s) ==
    /\ Len(s) = 10
    /\ s[5] = "-" /\ s[8] = "-"
    /\ \A i \in {1, 2, 3, 4, 6, 7, 9, 10} : s[i] \in Digits
    /\ LET y == IntOf(SubSeq(s, 1, 4))
           m == IntOf(SubSeq(s, 6, 7))
           d == IntOf(SubSeq(s, 9, 10))
       IN  m \in 1..12 /\ d \in 1..DaysInMonth(y, m)

\* pd.to_datetime(value, errors='coerce') on one cell: a Timestamp stays, a
\* string that is a date becomes a Timestamp at midnight, anything else is
\* NaT.  The strings the model supplies are ISO dates or text no date format
\* matches.
to_datetime(c) ==
    CASE c.t = "ts" -> c
      [] c.t = "str" /\ IsIsoDate(c.v) ->
            Ts(IntOf(SubSeq(c.v, 1, 4)), IntOf(SubSeq(c.v, 6, 7)),
               IntOf(SubSeq(c.v, 9, 10)), 0)
      [] OTHER -> NA

\* The lookup with a default in place of NaN.
country_mapping_default(c) ==
    CASE c = Tok("Germany") -> Tok("DE")
      [] c = Tok("United Kingdom") -> Tok("GB")
      [] c = Tok("United States") -> Tok("US")
      [] OTHER -> Tok("GB")

\* country_mapping, applied by Series.map: a country outside it maps to NaN.
country_mapping(c) ==
    CASE c = Tok("Germany") -> Tok("DE")
      [] c = Tok("United Kingdom") -> Tok("GB")
      [] c = Tok("United States") -> Tok("US")
      [] OTHER -> NA

\* Lines 35-47 of clean_user_data: the copy, dropna, the two date
\* conversions, the country lookup and its filter.
user_rows_mapped(df0) ==
    LET df1 == dropna(df0)
        df2 == assign_column(df1, "date_of_birth",
                   [i \in DOMAIN df1.rows |->
                       to_datetime(df1.rows[i].f["date_of_birth"])])
        df3 == assign_column(df2, "join_date",
                   [i \in DOMAIN df2.rows |->
                       to_datetime(df2.rows[i].f["join_date"])])
        df4 == assign_column(df3, "country_code",
                   [i \in DOMAIN df3.rows |->
                       country_mapping(df3.rows[i].f["country"])])
    IN  boolean_index(df4, [i \in DOMAIN df4.rows |->
                               ~IsNA(df4.rows[i].f["country_code"])])

\* Lines 85-87 of clean_user_data: the phone column, its filter, the index.
user_rows_phoned(df5) ==
    LET df6 == assign_column(df5, "phone_number",
                   [i \in DOMAIN df5.rows |->
                       format_phone_number(df5.rows[i].f["phone_number"].v,
                                           df5.rows[i].f["country_code"].v)])
    IN  reset_index(dropna_subset(df6, "phone_number"))

UserColumns == {"date_of_birth", "join_date", "country", "phone_number"}

\* DataCleaning.clean_user_data().  With no row left after the country
\* filter, DataFrame.apply(axis=1) returns an empty DataFrame instead of a
\* Series, and assigning it to one column raises ValueError in the pandas
\* releases that check the column count and is accepted by those that do not.
clean_user_data ==
    /\ calls < MaxCalls
    /\ UserColumns \subseteq Range(data.cols)
    /\ LET df5 == user_rows_mapped(data) IN
       \/ /\ df5.rows = <<>>
          /\ exc' = "ValueError"
          /\ ret' = NoFrame
          /\ data' = data
       \/ /\ exc' = "none"
          /\ ret' = user_rows_phoned(df5)
          /\ data' = ret'
    /\ op' = "clean_user_data"
    /\ inp' = data
    /\ calls' = calls + 1
    /\ UNCHANGED <<arg, now>>
    /\ UNCHANGED <<engine, conn, uploaded>>

(* --------------------------- clean_card_data -------------------------- *)

\* re.sub(r'\D', '', str(x))
digits_only(card_number) ==
    SelectSeq(card_number, LAMBDA ch : ch \in Digits)

Providers ==
    {"Diners Club / Carte Blanche", "American Express", "JCB 16 digit",
     "JCB 15 digit", "Maestro", "Mastercard", "Discover", "VISA 16 digit",
     "VISA 13 digit", "VISA 19 digit"}

\* valid_lengths with every provider accepting 16 digits.
valid_lengths_sixteen(provider) == {16}

\* valid_lengths[provider], for a provider in the dictionary.
valid_lengths(provider) ==
    CASE provider = "Diners Club / Carte Blanche" -> {14}
      [] provider = "American Express" -> {15}
      [] provider = "JCB 16 digit" -> {16}
      [] provider = "JCB 15 digit" -> {15}
      [] provider = "Maestro" -> {12, 13, 19}
      [] provider = "Mastercard" -> {16}
      [] provider = "Discover" -> {16}
      [] provider = "VISA 16 digit" -> {16}
      [] provider = "VISA 13 digit" -> {13}
      [] provider = "VISA 19 digit" -> {19}

\* is_valid_length(card_number, provider)
is_valid_length(card_number, provider) ==
    IF provider \in Providers
    THEN Len(card_number) \in valid_lengths(provider)
    ELSE FALSE

\* %y: 69-99 are 1969-1999, 00-68 are 2000-2068.
Pivot == 69
year_of(yy) == IF yy >= Pivot THEN 1900 + yy ELSE 2000 + yy

\* Whether s is 'MM/YY' naming a month.
IsMonthYear(s) ==
    /\ Len(s) = 5
    /\ s[3] = "/"
    /\ \A i \in {1, 2, 4, 5} : s[i] \in Digits
    /\ IntOf(SubSeq(s, 1, 2)) \in 1..12

\* pd.to_datetime(value, format='%m/%y', errors='coerce') on one cell: the
\* first day of the month at midnight, or NaT.
to_datetime_my(c) ==
    CASE c.t = "ts" -> c
      [] c.t = "str" /\ IsMonthYear(c.v) ->
            Ts(year_of(IntOf(SubSeq(c.v, 4, 5))), IntOf(SubSeq(c.v, 1, 2)),
               1, 0)
      [] OTHER -> NA

\* a > b on Timestamps.
ts_gt(a, b) ==
    \/ a.y > b.y
    \/ a.y = b.y /\ a.m > b.m
    \/ a.y = b.y /\ a.m = b.m /\ a.d > b.d
    \/ a.y = b.y /\ a.m = b.m /\ a.d = b.d /\ a.tick > b.tick

\* The comparison made strict.
ts_ge_strict(a, b) == a.t = "ts" /\ b.t = "ts" /\ ts_gt(a, b)

\* a >= b on Timestamps; a comparison with NaT is False.
ts_ge(a, b) == a.t = "ts" /\ b.t = "ts" /\ (a = b \/ ts_gt(a, b))

CardColumns ==
    {"card_number", "card_provider", "expiry_date", "date_payment_confirmed"}

\* The frame clean_card_data returns when pd.Timestamp.now() is current_date.
card_rows(df0, current_date) ==
    LET df1 == dropna(df0)
        df2 == assign_column(df1, "card_number",
                   [i \in DOMAIN df1.rows |->
                       Str(digits_only(df1.rows[i].f["card_number"].v))])
        df3 == boolean_index(df2,
                   [i \in DOMAIN df2.rows |->
                       is_valid_length(df2.rows[i].f["card_number"].v,
                                       df2.rows[i].f["card_provider"].v)])
        df4 == assign_column(df3, "expiry_date",
                   [i \in DOMAIN df3.rows |->
                       to_datetime_my(df3.rows[i].f["expiry_date"])])
        df5 == boolean_index(df4,
                   [i \in DOMAIN df4.rows |->
                       ts_ge(df4.rows[i].f["expiry_date"], current_date)])
        df6 == assign_column(df5, "date_payment_confirmed",
                   [i \in DOMAIN df5.rows |->
                       to_datetime(df5.rows[i].f["date_payment_confirmed"])])
    IN  reset_index(dropna_subset(df6, "date_payment_confirmed"))

\* The instants a run may read from the clock: midnight opening a month,
\* later that day, later that month, the next month.
NowInputs ==
    {Ts(2026, 11, 1, 0), Ts(2026, 11, 1, 1), Ts(2026, 11, 6, 1),
     Ts(2026, 12, 31, 1)}

\* DataCleaning.clean_card_data()
clean_card_data ==
    /\ calls < MaxCalls
    /\ CardColumns \subseteq Range(data.cols)
    /\ \E current_date \in NowInputs :
          /\ now = NoTime \/ ts_ge(current_date, now)
          /\ now' = current_date
          /\ ret' = card_rows(data, current_date)
    /\ data' = ret'
    /\ exc' = "none"
    /\ op' = "clean_card_data"
    /\ inp' = data
    /\ calls' = calls + 1
    /\ UNCHANGED arg
    /\ UNCHANGED <<engine, conn, uploaded>>

\* DataCleaning.clean_store_data()
clean_store_data ==
    /\ calls < MaxCalls
    /\ ret' = reset_index(dropna(data))
    /\ data' = ret'
    /\ exc' = "none"
    /\ op' = "clean_store_data"
    /\ inp' = data
    /\ calls' = calls + 1
    /\ UNCHANGED <<arg, now>>
    /\ UNCHANGED <<engine, conn, uploaded>>

(* ------------------ convert_product_weights, products ----------------- *)

UpperChars ==
    <<"A", "B", "C", "D", "E", "F", "G", "H", "I", "J", "K", "L", "M", "N",
      "O", "P", "Q", "R", "S", "T", "U", "V", "W", "X", "Y", "Z">>
LowerChars ==
    <<"a", "b", "c", "d", "e", "f", "g", "h", "i", "j", "k", "l", "m", "n",
      "o", "p", "q", "r", "s", "t", "u", "v", "w", "x", "y", "z">>

\* str.lower()
lower(s) ==
    [i \in DOMAIN s |->
        IF \E k \in DOMAIN UpperChars : UpperChars[k] = s[i]
        THEN LowerChars[CHOOSE k \in DOMAIN UpperChars : UpperChars[k] = s[i]]
        ELSE s[i]]

\* sub in s
contains(s, sub) ==
    \E i \in 1..(Len(s) - Len(sub) + 1) : SubSeq(s, i, i + Len(sub) - 1) = sub

\* re.sub(r'[^\d.]', '', weight)
digits_and_dots(weight) ==
    SelectSeq(weight, LAMBDA ch : ch \in Digits \cup {"."})

\* Whether float() accepts a string of digits and dots: at least one digit
\* and at most one dot.
is_numeral(s) ==
    /\ \E i \in DOMAIN s : s[i] \in Digits
    /\ Cardinality({i \in DOMAIN s : s[i] = "."}) <= 1

\* The digits of a numeral as one integer, and the count of those after the
\* dot: float(s) = mantissa(s) / 10^places(s).
mantissa(s) == IntOf(SelectSeq(s, LAMBDA ch : ch \in Digits))
places(s) ==
    IF \E i \in DOMAIN s : s[i] = "."
    THEN Len(s) - (CHOOSE i \in DOMAIN s : s[i] = ".")
    ELSE 0

RECURSIVE Pow10(_)
Pow10(k) == IF k = 0 THEN 1 ELSE 10 * Pow10(k - 1)

\* round(num / den, 2) as a "num" cell.  Where num / den lies midway between
\* two hundredths, the float nearest to it lies on either side, and tie tells
\* which: "up" or "down".
round2(num, den, tie) ==
    LET n == IF den % 100 = 0 THEN num ELSE 100 * num
        d == IF den % 100 = 0 THEN den \div 100 ELSE den
        q == n \div d
        r == n % d
    IN  IF 2 * r > d \/ (2 * r = d /\ tie = "up")
        THEN Num(q + 1, 2)
        ELSE Num(q, 2)

\* The unit factors as fractions.  0.453592 = 56699 / 125000 and
\* 0.0283495 = 56699 / 2000000.
PoundNum == 56699
PoundDen == 125000
OunceDen == 2000000
GramDen == 1000

\* The branch convert_weight takes for the lower-cased, stripped string w.
unit_of(w) ==
    CASE contains(w, <<"k", "g">>) -> "kg"
      [] contains(w, <<"g">>) -> "g"
      [] contains(w, <<"m", "l">>) -> "ml"
      [] contains(w, <<"l", "b">>) -> "lb"
      [] contains(w, <<"o", "z">>) -> "oz"
      [] OTHER -> "none"

\* The outcome of convert_weight raising ValueError.
Raised == [t |-> "raised"]

\* convert_weight(weight) on one cell: a "num" cell, NA for None, Raised when
\* float() raises ValueError; a cell that is no string is returned as it is.
convert_weight(weight, tie) ==
    IF ~IsStr(weight) THEN weight
    ELSE
    LET w == strip(lower(weight.v))
        residue == digits_and_dots(w)
        mant == mantissa(residue)
        scale == Pow10(places(residue))
        unit == unit_of(w)
    IN  CASE unit = "none" -> NA
          [] ~is_numeral(residue) -> Raised
          [] unit = "kg" -> round2(mant, scale, tie)
          [] unit \in {"g", "ml"} -> round2(mant, scale * GramDen, tie)
          [] unit = "lb" -> round2(mant * PoundNum, scale * PoundDen, tie)
          [] unit = "oz" -> round2(mant * PoundNum, scale * OunceDen, tie)

RECURSIVE RemoveCol(_, _)
RemoveCol(cols, col) ==
    IF cols = <<>> THEN <<>>
    ELSE IF Head(cols) = col THEN RemoveCol(Tail(cols), col)
    ELSE <<Head(cols)>> \o RemoveCol(Tail(cols), col)

\* Lines 193-195: the column weight_kg is added at the end, weight is
\* dropped and weight_kg is renamed weight.
weights_replaced(df, vals) ==
    Frame(Append(RemoveCol(df.cols, "weight"), "weight"),
          [i \in DOMAIN df.rows |->
              [df.rows[i] EXCEPT !.f = [@ EXCEPT !["weight"] = vals[i]]]])

Ties == {"down", "up"}

\* The frame passed in is the one the caller holds (arg) or the one the
\* last operation returned (ret).
\* DataCleaning.convert_product_weights(products_df): products_df is changed
\* in place and returned; when convert_weight raises, nothing is changed.
convert_product_weights ==
    /\ calls < MaxCalls
    /\ \E x \in {arg, ret} : \E ties \in [1..MaxRows -> Ties] :
          /\ IsFrame(x)
          /\ "weight" \in Range(x.cols)
          /\ inp' = x
          /\ LET vals == [i \in DOMAIN x.rows |->
                             convert_weight(x.rows[i].f["weight"], ties[i])]
             IN  IF \E i \in DOMAIN vals : vals[i] = Raised
                 THEN /\ exc' = "ValueError"
                      /\ arg' = x
                      /\ ret' = NoFrame
                 ELSE /\ exc' = "none"
                      /\ arg' = weights_replaced(x, vals)
                      /\ ret' = arg'
    /\ op' = "convert_product_weights"
    /\ calls' = calls + 1
    /\ UNCHANGED <<data, now>>
    /\ UNCHANGED <<engine, conn, uploaded>>

\* pd.to_numeric(value, errors='coerce') on one cell.
to_numeric(c) ==
    CASE c.t = "num" -> c
      [] c.t = "str" /\ is_numeral(c.v) /\ AllDigitsOrDot(c.v) ->
            Num(mantissa(c.v), places(c.v))
      [] OTHER -> NA

\* x.strip() if isinstance(x, str) else x
strip_cell(c) == IF IsStr(c) THEN Str(strip(c.v)) ELSE c

\* The frame clean_products_data returns.
products_rows(df0) ==
    LET df1 == dropna(df0)
        df2 == Frame(df1.cols,
                   [i \in DOMAIN df1.rows |->
                       [df1.rows[i] EXCEPT !.f =
                           [c \in DOMAIN @ |-> strip_cell(@[c])]]])
        df3 == IF "price" \in Range(df2.cols)
               THEN assign_column(df2, "price",
                        [i \in DOMAIN df2.rows |->
                            to_numeric(df2.rows[i].f["price"])])
               ELSE df2
        df4 == IF "weight" \in Range(df3.cols)
               THEN assign_column(df3, "weight",
                        [i \in DOMAIN df3.rows |->
                            to_numeric(df3.rows[i].f["weight"])])
               ELSE df3
    IN  reset_index(df4)

\* DataCleaning.clean_products_data(products_df)
clean_products_data ==
    /\ calls < MaxCalls
    /\ \E x \in {arg, ret} :
          /\ IsFrame(x)
          /\ inp' = x
          /\ arg' = x
          /\ ret' = products_rows(x)
    /\ exc' = "none"
    /\ op' = "clean_products_data"
    /\ calls' = calls + 1
    /\ UNCHANGED <<data, now>>
    /\ UNCHANGED <<engine, conn, uploaded>>

(* ---------------- clean_orders_data, clean_date_details_data ---------- *)

\* columns_to_remove without the column '1'.
columns_to_remove_names == {"first_name", "last_name"}

\* columns_to_remove = ['first_name', 'last_name', '1']
columns_to_remove == {"first_name", "last_name", "1"}

\* DataFrame.drop(columns=names, errors='ignore'): the named columns that
\* exist are removed, the others are passed over.
drop_columns(df, names) ==
    LET kept == SelectSeq(df.cols, LAMBDA c : c \notin names) IN
    Frame(kept,
          [i \in DOMAIN df.rows |->
              [df.rows[i] EXCEPT !.f = [c \in Range(kept) |-> @[c]]]])

\* DataCleaning.clean_orders_data()
clean_orders_data ==
    /\ calls < MaxCalls
    /\ ret' = reset_index(drop_columns(data, columns_to_remove))
    /\ data' = ret'
    /\ exc' = "none"
    /\ op' = "clean_orders_data"
    /\ inp' = data
    /\ calls' = calls + 1
    /\ UNCHANGED <<arg, now>>
    /\ UNCHANGED <<engine, conn, uploaded>>

\* DataCleaning.clean_date_details_data()
clean_date_details_data ==
    /\ calls < MaxCalls
    /\ ret' = reset_index(dropna(data))
    /\ data' = ret'
    /\ exc' = "none"
    /\ op' = "clean_date_details_data"
    /\ inp' = data
    /\ calls' = calls + 1
    /\ UNCHANGED <<arg, now>>
    /\ UNCHANGED <<engine, conn, uploaded>>

(* -------------------------- DatabaseConnector ------------------------- *)

\* The credentials init_db_engine builds the URL from.
creds_of(db_type) ==
    CASE db_type = "source" -> "RDS"
      [] db_type = "local" -> "LOCAL"
      [] OTHER -> "None"

\* What a call meets.  file is what read_db_creds finds: a file with the
\* credentials, an empty file (yaml.safe_load returns None), a file without
\* the keys asked for, no file (open raises).  link is what
\* engine.connect() meets: a server that accepts, one that does not.
Surroundings ==
    [file : {"ok", "empty", "partial", "missing"},
     link : {"accepted", "refused"}]

\* self.engine, self.conn and the exception raised after
\* init_db_engine(db_type): create_engine does not connect, so a refused
\* connection leaves the new engine in self.engine.
init_engine(db_type, env) ==
    CASE env.file = "missing" ->
            [engine |-> engine, conn |-> conn, exc |-> "FileNotFoundError"]
      [] env.file = "empty" \/ creds_of(db_type) = "None" ->
            [engine |-> engine, conn |-> conn, exc |-> "none"]
      [] env.file = "partial" ->
            [engine |-> engine, conn |-> conn, exc |-> "KeyError"]
      [] env.link = "refused" ->
            [engine |-> creds_of(db_type), conn |-> conn, exc |-> "none"]
      [] OTHER ->
            [engine |-> creds_of(db_type), conn |-> creds_of(db_type),
             exc |-> "none"]

\* self.engine, self.conn and the exception raised after
\*     if not self.engine: self.init_db_engine(db_type)
ensure_engine(db_type, env) ==
    IF engine = "None" THEN init_engine(db_type, env)
    ELSE [engine |-> engine, conn |-> conn, exc |-> "none"]

DbTypes == {"source", "local", "backup"}

\* DatabaseConnector.init_db_engine(db_type)
init_db_engine ==
    /\ calls < MaxCalls
    /\ \E db_type \in DbTypes : \E env \in Surroundings :
          LET r == init_engine(db_type, env) IN
          /\ engine' = r.engine
          /\ conn' = r.conn
          /\ exc' = r.exc
    /\ op' = "init_db_engine"
    /\ calls' = calls + 1
    /\ UNCHANGED <<arg, data, ret, inp, now, uploaded>>

\* DatabaseConnector.list_db_tables(): every exception is caught.
list_db_tables ==
    /\ calls < MaxCalls
    /\ \E env \in Surroundings :
          LET r == ensure_engine("source", env) IN
          /\ engine' = r.engine
          /\ conn' = r.conn
    /\ exc' = "none"
    /\ op' = "list_db_tables"
    /\ calls' = calls + 1
    /\ UNCHANGED <<arg, data, ret, inp, now, uploaded>>

\* DatabaseConnector.upload_to_db(df, table_name, db_type): the table is
\* written through self.engine, or SQLAlchemyError is caught (the table does
\* not exist yet, the server refuses) and nothing is written.
upload_to_db ==
    /\ calls < MaxCalls
    /\ \E db_type \in DbTypes :
       \E table_name \in {"orders_table", "dim_users"} :
       \E env \in Surroundings : \E written \in BOOLEAN :
          LET r == ensure_engine(db_type, env) IN
          /\ engine' = r.engine
          /\ conn' = r.conn
          /\ exc' = r.exc
          /\ uploaded' =
                IF r.exc = "none" /\ r.engine # "None" /\ written
                THEN Append(uploaded,
                            [table |-> table_name, db_type |-> db_type,
                             db |-> r.engine])
                ELSE uploaded
    /\ op' = "upload_to_db"
    /\ calls' = calls + 1
    /\ UNCHANGED <<arg, data, ret, inp, now>>

\* The state after DatabaseConnector(db_file).
InitConnector ==
    /\ arg = NoFrame
    /\ data = NoFrame
    /\ ret = NoFrame
    /\ op = "init"
    /\ inp = NoFrame
    /\ now = NoTime
    /\ exc = "none"
    /\ calls = 0
    /\ engine = "None"
    /\ conn = "None"
    /\ uploaded = <<>>

NextConnector == init_db_engine \/ list_db_tables \/ upload_to_db

SpecConnector == InitConnector /\ [][NextConnector]_vars

(* ----------------------------- user input ----------------------------- *)

\* Phone numbers as the source table holds them: a country prefix or none,
\* a trunk zero or none, and a run of subscriber digits in one of several
\* punctuations.
PhonePrefixes ==
    {<<>>, <<"+", "4", "4">>, <<"4", "4">>, <<"+", "1">>, <<"1">>,
     <<"+", "4", "9">>, <<"4", "9">>}

PhoneTrunks == {<<>>, <<" ", "0">>, <<"(", "0", ")">>, <<"0", "0">>}

BodySeeds ==
    {<<2, 0, 7, 9, 4, 6, 0, 9, 5, 8, 3, 1, 6>>,
     <<0, 7, 1, 2, 3, 4, 5, 6, 7, 8, 9, 0, 1>>,
     <<1, 2, 1, 2, 5, 5, 5, 0, 1, 9, 9, 4, 7>>}

BodyLens == 9..MaxBody

PhoneStyles == {"plain", "spaced", "us", "paren", "plus"}

Punctuate(b, style) ==
    LET n == Len(b) IN
    CASE style = "spaced" ->
            SubSeq(b, 1, 2) \o <<" ">> \o SubSeq(b, 3, 6) \o <<" ">>
                \o SubSeq(b, 7, n)
      [] style = "us" ->
            <<"(">> \o SubSeq(b, 1, 3) \o <<")", " ">> \o SubSeq(b, 4, 6)
                \o <<"-">> \o SubSeq(b, 7, n)
      [] style = "paren" -> SubSeq(b, 1, 2) \o <<"(">> \o SubSeq(b, 3, n)
      [] style = "plus" ->
            SubSeq(b, 1, 3) \o <<"+">> \o SubSeq(b, 4, 6) \o <<"+">>
                \o SubSeq(b, 7, n)
      [] OTHER -> b

PhoneInputs ==
    {p \o t \o Punctuate(Digs(SubSeq(seed, 1, n)), st) :
        p \in PhonePrefixes, t \in PhoneTrunks, seed \in BodySeeds,
        n \in BodyLens, st \in PhoneStyles}

Countries == {Tok("Germany"), Tok("United Kingdom"), Tok("United States")}

GoodDate == Str(<<"1", "9", "9", "0", "-", "0", "1", "-", "3", "1">>)
LeapDate == Str(<<"2", "0", "0", "0", "-", "0", "2", "-", "2", "9">>)
NoSuchDay == Str(<<"2", "0", "0", "1", "-", "0", "2", "-", "3", "0">>)
NotADate == Str(<<"K", "B", "Q", "I", "7", "V", "I", "0", "J", "6">>)
DateInputs == {GoodDate, LeapDate, NoSuchDay, NotADate, NA}

UserCols ==
    <<"first_name", "date_of_birth", "country", "country_code",
      "phone_number", "join_date">>

UserCell(fn, dob, country, cc, phone, jd) ==
    [first_name |-> fn, date_of_birth |-> dob, country |-> country,
     country_code |-> cc, phone_number |-> phone, join_date |-> jd]

\* Rows that vary the phone number, with every other field in order.
PhoneProbes ==
    {UserCell(Tok("Ann"), GoodDate, c, Tok("GGB"), Str(p), LeapDate) :
        c \in Countries, p \in PhoneInputs}

GbCanonical ==
    Str(<<"+", "4", "4", " ", "2", "0", " ", "7", "9", "4", "6", " ",
          "0", "9", "5", "8">>)
UsDotted ==
    Str(<<"1", ".", "2", "1", "2", ".", "5", "5", "5", ".", "0", "1", "9",
          "9">>)

\* Rows that vary the dates, the name and the stored country code.
DateProbes ==
    {UserCell(fn, dob, c, cc, p, jd) :
        fn \in {Tok("Bob"), NA}, dob \in DateInputs,
        c \in {Tok("United Kingdom"), Tok("Spain")},
        cc \in {Tok("GB"), NA}, p \in {GbCanonical}, jd \in DateInputs}

UserProbes == PhoneProbes \cup DateProbes

\* The rows that fill the rest of a frame.
UserFillers ==
    {UserCell(Tok("Cy"), GoodDate, Tok("United States"), Tok("US"), UsDotted,
              GoodDate),
     UserCell(Tok("Di"), GoodDate, Tok("France"), Tok("FR"), GbCanonical,
              GoodDate)}

\* A frame as an extractor returns it: a RangeIndex, every row at its place.
MkFrame(cols, cells) ==
    Frame(cols,
          [i \in DOMAIN cells |-> [idx |-> i - 1, src |-> i, f |-> cells[i]]])

\* Frames of at most MaxRows rows, one of them a probe and the others fillers.
IsProbedFrame(fr, cols, probes, fillers) ==
    \E n \in 1..MaxRows : \E k \in 1..n : \E pr \in probes :
        \E fl \in [1..n -> fillers] :
            fr = MkFrame(cols, [i \in 1..n |-> IF i = k THEN pr ELSE fl[i]])

\* The state after DataCleaning(fr): self.data is the caller's frame.
InitFrame(fr) ==
    /\ arg = fr
    /\ data = fr
    /\ ret = NoFrame
    /\ op = "init"
    /\ inp = NoFrame
    /\ now = NoTime
    /\ exc = "none"
    /\ calls = 0
    /\ engine = "None"
    /\ conn = "None"
    /\ uploaded = <<>>

\* The state after DataCleaning(arg), arg a probed frame.
InitWith(cols, probes, fillers) ==
    /\ IsProbedFrame(arg, cols, probes, fillers)
    /\ InitFrame(arg)

InitUsers == InitWith(UserCols, UserProbes, UserFillers)

NextUsers == clean_user_data

SpecUsers == InitUsers /\ [][NextUsers]_vars

(* ----------------------------- card input ----------------------------- *)

\* Longest run of digits in a generated card number.
MaxCardDigits == 20

\* n digits.
CardDigits(n) == [i \in 1..n |-> DigitChar[((7 * i + 3) % 10) + 1]]

\* Card numbers as the PDF holds them: bare, after question marks, in
\* groups of four.
CardStyles == {"bare", "marked", "grouped"}

RECURSIVE Grouped(_)
Grouped(ds) ==
    IF Len(ds) <= 4 THEN ds
    ELSE SubSeq(ds, 1, 4) \o <<" ">> \o Grouped(SubSeq(ds, 5, Len(ds)))

CardNumber(n, style) ==
    CASE style = "marked" -> <<"?", "?">> \o CardDigits(n)
      [] style = "grouped" -> Grouped(CardDigits(n))
      [] OTHER -> CardDigits(n)

CardNumbers ==
    {Str(CardNumber(n, st)) : n \in 11..MaxCardDigits, st \in CardStyles}

MonthYear(m, yy) ==
    Str(<<DigitChar[(m \div 10) + 1], DigitChar[(m % 10) + 1], "/",
          DigitChar[(yy \div 10) + 1], DigitChar[(yy % 10) + 1]>>)

ExpiryInputs ==
    {MonthYear(12, 25), MonthYear(10, 26), MonthYear(11, 26),
     MonthYear(12, 26), MonthYear(1, 27), MonthYear(11, 68),
     MonthYear(11, 69), MonthYear(13, 26), NotADate, NA}

CardCols ==
    <<"card_number", "expiry_date", "card_provider",
      "date_payment_confirmed">>

CardCell(number, expiry, provider, confirmed) ==
    [card_number |-> number, expiry_date |-> expiry,
     card_provider |-> provider, date_payment_confirmed |-> confirmed]

\* Rows that vary the number and the provider.
NumberProbes ==
    {CardCell(num, MonthYear(1, 27), pr, GoodDate) :
        num \in CardNumbers,
        pr \in {Tok(x) : x \in Providers \cup {"Solo"}}}

\* Rows that vary the dates.
ExpiryProbes ==
    {CardCell(num, ex, Tok("Mastercard"), cf) :
        num \in {Str(CardDigits(16)), NA}, ex \in ExpiryInputs,
        cf \in {GoodDate, NotADate, NA}}

CardProbes == NumberProbes \cup ExpiryProbes

CardFillers ==
    {CardCell(Str(CardNumber(15, "marked")), MonthYear(1, 27),
              Tok("Mastercard"), GoodDate),
     CardCell(Str(CardNumber(16, "grouped")), MonthYear(12, 26),
              Tok("VISA 16 digit"), LeapDate)}

InitCards == InitWith(CardCols, CardProbes, CardFillers)

NextCards == clean_card_data

SpecCards == InitCards /\ [][NextCards]_vars

(* --------------------------- product input ---------------------------- *)

WeightMagnitudes ==
    {<<"5", "0", "0">>, <<"2">>, <<"3">>, <<"1", ".", "5">>, <<"7", "7">>,
     <<"1", "2", "5">>, <<"5">>, <<"1", "6">>,
     <<"1", "2", " ", "x", " ", "1", "0", "0">>,
     <<>>, <<"1", ".", "2", ".", "3">>}

WeightUnits ==
    {<<"k", "g">>, <<"g">>, <<"m", "l">>, <<"l", "b">>, <<"o", "z">>,
     <<" ", "s", "t", "o", "n", "e">>, <<"K", "G">>, <<>>}

WeightTails == {<<>>, <<" ">>, <<" ", ".">>}

WeightInputs ==
    {Str(m \o u \o tl) :
        m \in WeightMagnitudes, u \in WeightUnits, tl \in WeightTails}
        \cup {NA, Num(15, 1)}

ProductCols == <<"product_name", "price", "weight", "removed">>

ProductCell(name, price, weight, removed) ==
    [product_name |-> name, price |-> price, weight |-> weight,
     removed |-> removed]

Price3999 == Str(<<"3", "9", ".", "9", "9">>)
PricePounds == Str(<<"P", "3", "9", ".", "9", "9">>)
NameBall == Str(<<" ", "B", "a", "l", "l", " ">>)
W(mag, unit) == Str(mag \o unit)

WeightProbes ==
    {ProductCell(NameBall, Price3999, w, Tok("Still_avaliable")) :
        w \in WeightInputs}

PriceProbes ==
    {ProductCell(nm, pr, w, Tok("Removed")) :
        nm \in {NameBall, NA}, pr \in {Price3999, PricePounds, NA},
        w \in {W(<<"5", "0", "0">>, <<"g">>), W(<<"2">>, <<"k", "g">>)}}

ProductProbes == WeightProbes \cup PriceProbes

ProductFillers ==
    {ProductCell(NameBall, Price3999, W(<<"3">>, <<"l", "b">>),
                 Tok("Removed")),
     ProductCell(NameBall, PricePounds,
                 W(<<"3">>, <<" ", "s", "t", "o", "n", "e">>),
                 Tok("Still_avaliable"))}

InitProducts == InitWith(ProductCols, ProductProbes, ProductFillers)

NextProducts == convert_product_weights \/ clean_products_data

SpecProducts == InitProducts /\ [][NextProducts]_vars

(* ------------------------ order and date input ------------------------ *)

\* The columns an orders table may carry, in the order it carries them.
OrderColumnsFull ==
    <<"first_name", "last_name", "1", "order_id", "product_id", "level_0">>

Reverse(s) == [i \in DOMAIN s |-> s[Len(s) + 1 - i]]

\* Every orders layout: some of the columns, in table order or reversed.
OrderLayouts ==
    UNION {{SelectSeq(OrderColumnsFull, LAMBDA c : c \in have),
            Reverse(SelectSeq(OrderColumnsFull, LAMBDA c : c \in have))} :
              have \in SUBSET Range(OrderColumnsFull)}

\* A row of one of three kinds: every cell its column's name, every cell
\* the row's number, every cell missing.
OrderKinds == {"named", "numbered", "missing"}

OrderCell(cols, kind, i) ==
    [c \in Range(cols) |->
        CASE kind = "named" -> Tok(c)
          [] kind = "numbered" -> Num(i, 0)
          [] OTHER -> NA]

InitOrders ==
    \E cols \in OrderLayouts : \E n \in 0..MaxRows :
        \E kinds \in [1..n -> OrderKinds] :
            InitFrame(MkFrame(cols,
                [i \in 1..n |-> OrderCell(cols, kinds[i], i)]))

NextOrders == clean_orders_data

SpecOrders == InitOrders /\ [][NextOrders]_vars

UuidValid ==
    Str(<<"1", "2", "3", "e", "4", "5", "6", "7", "-", "e", "8", "9", "b",
          "-", "1", "2", "d", "3", "-", "a", "4", "5", "6", "-", "4", "2",
          "6", "6", "1", "4", "1", "7", "4", "0", "0", "0">>)
UuidUpper ==
    Str(<<"1", "2", "3", "E", "4", "5", "6", "7", "-", "E", "8", "9", "B",
          "-", "1", "2", "D", "3", "-", "A", "4", "5", "6", "-", "4", "2",
          "6", "6", "1", "4", "1", "7", "4", "0", "0", "0">>)
UuidNot == Str(<<"n", "o", "t", "-", "a", "-", "u", "u", "i", "d">>)
UuidShort ==
    Str(<<"1", "2", "3", "e", "4", "5", "6", "7", "-", "e", "8", "9", "b",
          "-", "1", "2", "d", "3", "-", "a", "4", "5", "6", "-", "4", "2",
          "6", "6", "1", "4", "1", "7", "4", "0", "0">>)
UuidNotHex ==
    Str(<<"1", "2", "3", "g", "4", "5", "6", "7", "-", "e", "8", "9", "b",
          "-", "1", "2", "d", "3", "-", "a", "4", "5", "6", "-", "4", "2",
          "6", "6", "1", "4", "1", "7", "4", "0", "0", "0">>)
UuidUndashed ==
    Str(<<"1", "2", "3", "e", "4", "5", "6", "7", "0", "e", "8", "9", "b",
          "-", "1", "2", "d", "3", "-", "a", "4", "5", "6", "-", "4", "2",
          "6", "6", "1", "4", "1", "7", "4", "0", "0", "0">>)

UuidInputs ==
    {UuidValid, UuidUpper, UuidNot, UuidShort, UuidNotHex, UuidUndashed, NA}

DateCols == <<"timestamp", "month", "year", "day", "time_period", "date_uuid">>

DateCell(ts, month, day, period, uuid) ==
    [timestamp |-> ts, month |-> month, year |-> Tok("2012"), day |-> day,
     time_period |-> period, date_uuid |-> uuid]

DateDetailProbes ==
    {DateCell(ts, mo, dy, pd, u) :
        ts \in {Tok("22:00:06"), NA}, mo \in {Tok("9"), Tok("NULL")},
        dy \in {Tok("19"), NA}, pd \in {Tok("Evening"), NA},
        u \in UuidInputs}

DateDetailFillers ==
    {DateCell(Tok("10:38:12"), Tok("2"), Tok("10"), Tok("Morning"), UuidValid),
     DateCell(Tok("1YMRDJNU2T"), Tok("1YMRDJNU2T"), Tok("1YMRDJNU2T"),
              Tok("1YMRDJNU2T"), UuidNot)}

InitDates == InitWith(DateCols, DateDetailProbes, DateDetailFillers)

NextDates == clean_date_details_data

SpecDates == InitDates /\ [][NextDates]_vars

(* ----------------------------- store input ---------------------------- *)

\* The columns of a store record as the API returns them, with the lat
\* column and without it, latitude last or fourth.
StoreLayouts ==
    {<<"address", "longitude", "lat", "locality", "staff_numbers",
       "opening_date", "latitude">>,
     <<"address", "longitude", "locality", "staff_numbers", "opening_date",
       "latitude">>,
     <<"address", "longitude", "locality", "latitude", "staff_numbers",
       "opening_date">>}

\* The values of the fields of a store row.
StoreValues ==
    [longitude |-> Str(<<"1", "2", ".", "3", "4">>),
     latitude |-> Str(<<"9", ".", "1">>),
     staff12a |-> Str(<<"1", "2", "a">>),
     staff12 |-> Str(<<"1", "2">>),
     staffJ78 |-> Str(<<"J", "7", "8">>),
     staffNA |-> Str(<<"N", "/", "A">>),
     opening |-> Str(<<"2", "0", "2", "0", "-", "0", "5", "-", "0", "1">>)]

\* A store row laid out in the columns cols.
StoreCell(cols, address, lat, staff, opening) ==
    [c \in Range(cols) |->
        CASE c = "address" -> address
          [] c = "longitude" -> StoreValues.longitude
          [] c = "lat" -> lat
          [] c = "locality" -> Tok("High Wycombe")
          [] c = "staff_numbers" -> staff
          [] c = "opening_date" -> opening
          [] OTHER -> StoreValues.latitude]

\* Rows that vary the address, the lat column (null, the API's 'N/A', a
\* coordinate), the staff numbers and the opening date.
StoreProbes(cols) ==
    {StoreCell(cols, ad, lt, st, od) :
        ad \in {Tok("Flat 72W"), NA},
        lt \in {NA, Tok("N/A"), StoreValues.latitude},
        st \in {StoreValues.staff12a, StoreValues.staff12,
                StoreValues.staffJ78, StoreValues.staffNA, NA},
        od \in {StoreValues.opening, NotADate}}

InitStores ==
    \E cols \in StoreLayouts :
        InitWith(cols, StoreProbes(cols),
                 {StoreCell(cols, Tok("Studio 6"), Tok("N/A"),
                            StoreValues.staff12, GoodDate),
                  StoreCell(cols, Tok("Heckenweg 4"), StoreValues.latitude,
                            StoreValues.staffJ78, LeapDate)})

NextStores == clean_store_data

SpecStores == InitStores /\ [][NextStores]_vars

(* ------------------------ properties: users --------------------------- *)

Returned(name) == op = name /\ exc = "none"

AllDigits(s) == \A i \in DOMAIN s : s[i] \in Digits

\* Whether row r holds a value in every column of df.
Complete(df, r) == \A c \in Range(df.cols) : ~IsNA(r.f[c])

LastN(s, n) == SubSeq(s, Len(s) - n + 1, Len(s))

\* Whether the stripped number c is one of the given prefixes or none, then
\* a trunk zero or none, then exactly n digits.
HasForm(c, prefixes, n) ==
    /\ Len(c) >= n
    /\ AllDigits(LastN(c, n))
    /\ \E p \in prefixes \cup {<<>>} : \E z \in {<<>>, <<"0">>} :
          SubSeq(c, 1, Len(c) - n) = p \o z

\* Whether the frame out holds the row that was at place src, with this phone.
HasPhone(out, src, phone) ==
    \E j \in DOMAIN out.rows :
        out.rows[j].src = src /\ out.rows[j].f["phone_number"] = Str(phone)

DePrefixes == {<<"+", "4", "9">>, <<"4", "9">>}
GbPrefixes == {<<"+", "4", "4">>, <<"4", "4">>}
UsPrefixes == {<<"+", "1">>, <<"1">>}

DeCanonical(d) ==
    <<"+", "4", "9", " ">> \o SubSeq(d, 1, 2) \o <<" ">> \o SubSeq(d, 3, 5)
        \o <<" ">> \o SubSeq(d, 6, 9)
GbCanonicalOf(d) ==
    <<"+", "4", "4", " ">> \o SubSeq(d, 1, 2) \o <<" ">> \o SubSeq(d, 3, 6)
        \o <<" ">> \o SubSeq(d, 7, 10)
UsCanonicalOf(d) ==
    <<"+", "1", " ">> \o SubSeq(d, 1, 3) \o <<"-">> \o SubSeq(d, 4, 6)
        \o <<"-">> \o SubSeq(d, 7, 10)

\* The stripped phone number of a row.
Stripped(r) == clean_number(r.f["phone_number"].v)

\* C1: every complete German row whose stripped phone number is
\* [+49|49][0]AABBBCCCC is in the output of clean_user_data with the phone
\* number '+49 AA BBB CCCC'.
C1_GermanNumbersAccepted ==
    op = "clean_user_data" =>
        \A i \in DOMAIN inp.rows :
            LET r == inp.rows[i] IN
            (/\ Complete(inp, r)
             /\ r.f["country"] = Tok("Germany")
             /\ HasForm(Stripped(r), DePrefixes, 9))
            => /\ exc = "none"
               /\ HasPhone(ret, r.src, DeCanonical(LastN(Stripped(r), 9)))

\* What the code does instead: no German row is ever in the output.
NoGermanRowSurvives ==
    Returned("clean_user_data") =>
        \A j \in DOMAIN ret.rows : ret.rows[j].f["country"] # Tok("Germany")

\* C2: every complete British row whose stripped phone number is
\* [+44|44][0] and 10 digits, and every complete American row whose
\* stripped number is [+1|1] and 10 digits, is in the output of
\* clean_user_data in canonical form, with the prefix or without it.
C2_PrefixOptional ==
    op = "clean_user_data" =>
        \A i \in DOMAIN inp.rows :
            LET r == inp.rows[i] IN
            /\ (/\ Complete(inp, r)
                /\ r.f["country"] = Tok("United Kingdom")
                /\ HasForm(Stripped(r), GbPrefixes, 10))
               => /\ exc = "none"
                  /\ HasPhone(ret, r.src,
                              GbCanonicalOf(LastN(Stripped(r), 10)))
            /\ (/\ Complete(inp, r)
                /\ r.f["country"] = Tok("United States")
                /\ HasForm(Stripped(r), UsPrefixes, 10))
               => /\ exc = "none"
                  /\ HasPhone(ret, r.src,
                              UsCanonicalOf(LastN(Stripped(r), 10)))

\* C3: a phone number clean_user_data returned is returned unchanged when
\* it is formatted again under the same country code.
C3_FormatIdempotent ==
    Returned("clean_user_data") =>
        \A j \in DOMAIN ret.rows :
            LET r == ret.rows[j] IN
            format_phone_number(r.f["phone_number"].v, r.f["country_code"].v)
                = r.f["phone_number"]

\* C4: every row clean_user_data returns is a row of its input whose
\* country is Germany, United Kingdom or United States, with the country
\* code DE, GB or US of that country.
C4_OnlyMappedCountries ==
    Returned("clean_user_data") =>
        \A j \in DOMAIN ret.rows :
            LET r == ret.rows[j] IN
            /\ \E i \in DOMAIN inp.rows :
                  /\ inp.rows[i].src = r.src
                  /\ inp.rows[i].f["country"] = r.f["country"]
            /\ \/ r.f["country"] = Tok("Germany")
                  /\ r.f["country_code"] = Tok("DE")
               \/ r.f["country"] = Tok("United Kingdom")
                  /\ r.f["country_code"] = Tok("GB")
               \/ r.f["country"] = Tok("United States")
                  /\ r.f["country_code"] = Tok("US")

\* A call that returned a row and left out a complete row of another country.
C4_Witness ==
    /\ Returned("clean_user_data")
    /\ ret.rows # <<>>
    /\ \E i \in DOMAIN inp.rows :
          /\ Complete(inp, inp.rows[i])
          /\ inp.rows[i].f["country"] \in {Tok("France"), Tok("Spain")}
          /\ \A j \in DOMAIN ret.rows : ret.rows[j].src # inp.rows[i].src

\* C8: every row clean_user_data returns has a parsed date of birth and a
\* parsed join date.
C8_DatesParsed ==
    Returned("clean_user_data") =>
        \A j \in DOMAIN ret.rows :
            /\ ret.rows[j].f["date_of_birth"].t = "ts"
            /\ ret.rows[j].f["join_date"].t = "ts"

(* ------------------------ properties: cards --------------------------- *)

\* The provider table of the specification.
AcceptedLengths(provider) ==
    CASE provider = Tok("Diners Club / Carte Blanche") -> {14}
      [] provider = Tok("American Express") -> {15}
      [] provider = Tok("JCB 16 digit") -> {16}
      [] provider = Tok("JCB 15 digit") -> {15}
      [] provider = Tok("Maestro") -> {12, 13, 19}
      [] provider = Tok("Mastercard") -> {16}
      [] provider = Tok("Discover") -> {16}
      [] provider = Tok("VISA 16 digit") -> {16}
      [] provider = Tok("VISA 13 digit") -> {13}
      [] provider = Tok("VISA 19 digit") -> {19}
      [] OTHER -> {}

DigitCount(s) == Cardinality({i \in DOMAIN s : s[i] \in Digits})

InOutput(src) == \E j \in DOMAIN ret.rows : ret.rows[j].src = src

\* C5: every card number clean_card_data returns is all digits, of a
\* length its provider accepts; every input row of an unknown provider or
\* of another digit count is absent from the output.
C5_CardLengths ==
    Returned("clean_card_data") =>
        /\ \A j \in DOMAIN ret.rows :
              LET r == ret.rows[j] IN
              /\ r.f["card_number"].t = "str"
              /\ AllDigits(r.f["card_number"].v)
              /\ Len(r.f["card_number"].v) \in AcceptedLengths(r.f["card_provider"])
        /\ \A i \in DOMAIN inp.rows :
              LET r == inp.rows[i] IN
              (/\ r.f["card_number"].t = "str"
               /\ DigitCount(r.f["card_number"].v)
                     \notin AcceptedLengths(r.f["card_provider"]))
              => ~InOutput(r.src)

\* A Mastercard of 16 digits, written with other characters, returned as
\* digits, while a Mastercard of 15 digits in the same frame is left out.
C5_Witness ==
    /\ Returned("clean_card_data")
    /\ \E i, k \in DOMAIN inp.rows :
          /\ inp.rows[i].f["card_provider"] = Tok("Mastercard")
          /\ inp.rows[i].f["card_number"].t = "str"
          /\ ~AllDigits(inp.rows[i].f["card_number"].v)
          /\ DigitCount(inp.rows[i].f["card_number"].v) = 16
          /\ InOutput(inp.rows[i].src)
          /\ inp.rows[k].f["card_provider"] = Tok("Mastercard")
          /\ inp.rows[k].f["card_number"].t = "str"
          /\ DigitCount(inp.rows[k].f["card_number"].v) = 15
          /\ ~InOutput(inp.rows[k].src)

\* The month and year an 'MM/YY' expiry names.
ExpiryMonth(c) == IntOf(SubSeq(c.v, 1, 2))
ExpiryYear(c) ==
    LET yy == IntOf(SubSeq(c.v, 4, 5)) IN
    IF yy <= 68 THEN 2000 + yy ELSE 1900 + yy

\* Whether the first instant of month m of year y is before the instant t.
MonthStartsBefore(y, m, t) ==
    \/ y < t.y
    \/ y = t.y /\ m < t.m
    \/ y = t.y /\ m = t.m /\ (t.d > 1 \/ t.tick > 0)

\* Whether row r of the input passes every filter but the expiry one.
PassesOtherCardFilters(r) ==
    /\ Complete(inp, r)
    /\ r.f["card_number"].t = "str"
    /\ DigitCount(r.f["card_number"].v) \in AcceptedLengths(r.f["card_provider"])
    /\ r.f["date_payment_confirmed"].t = "str"
    /\ IsIsoDate(r.f["date_payment_confirmed"].v)
    /\ r.f["expiry_date"].t = "str"
    /\ IsMonthYear(r.f["expiry_date"].v)

\* C6: among the rows that pass the other filters, clean_card_data keeps a
\* row exactly when its 'MM/YY' expiry is not before the instant of the
\* run; a row expiring in a later month is kept.
C6_ExpiryFilter ==
    Returned("clean_card_data") =>
        \A i \in DOMAIN inp.rows :
            LET r == inp.rows[i]
                e == r.f["expiry_date"]
            IN  PassesOtherCardFilters(r) =>
                /\ InOutput(r.src)
                      <=> ~MonthStartsBefore(ExpiryYear(e), ExpiryMonth(e), now)
                /\ (\/ ExpiryYear(e) > now.y
                    \/ ExpiryYear(e) = now.y /\ ExpiryMonth(e) > now.m)
                   => InOutput(r.src)

\* A frame with a card that is kept and a card that expires in the month of
\* the run and is left out.
C6_Witness ==
    /\ Returned("clean_card_data")
    /\ \E i, k \in DOMAIN inp.rows :
          /\ PassesOtherCardFilters(inp.rows[i])
          /\ PassesOtherCardFilters(inp.rows[k])
          /\ InOutput(inp.rows[i].src)
          /\ ~InOutput(inp.rows[k].src)
          /\ ExpiryYear(inp.rows[k].f["expiry_date"]) = now.y
          /\ ExpiryMonth(inp.rows[k].f["expiry_date"]) = now.m

\* A card expiring at the very instant of the run, kept.
C6_WitnessBoundary ==
    /\ Returned("clean_card_data")
    /\ \E j \in DOMAIN ret.rows : ret.rows[j].f["expiry_date"] = now

(* ----------------------- properties: products ------------------------- *)

\* The leading numeric magnitude of w: its first unbroken run of digits and
\* decimal points.
RECURSIVE TakeNumeral(_)
TakeNumeral(s) ==
    IF s = <<>> \/ Head(s) \notin Digits \cup {"."} THEN <<>>
    ELSE <<Head(s)>> \o TakeNumeral(Tail(s))

RECURSIVE LeadingNumeral(_)
LeadingNumeral(w) ==
    IF w = <<>> THEN <<>>
    ELSE IF Head(w) \in Digits \cup {"."} THEN TakeNumeral(w)
    ELSE LeadingNumeral(Tail(w))

\* The numeral times the factor of the unit, rounded to 2 decimal places.
InKilograms(numeral, unit, tie) ==
    LET v == mantissa(numeral)
        sc == Pow10(places(numeral))
    IN  CASE unit = "kg" -> round2(v, sc, tie)
          [] unit \in {"g", "ml"} -> round2(v, sc * 1000, tie)
          [] unit = "lb" -> round2(v * 56699, sc * 125000, tie)
          [] unit = "oz" -> round2(v * 56699, sc * 2000000, tie)

\* Whether convert_product_weights gave row i of its input the kilograms of
\* the leading magnitude of its weight string, or null when the string has
\* no unit.  With everyGroup FALSE, only a string whose digits and decimal
\* points form one group is held to it.
RowConverted(i, everyGroup) ==
    LET c == inp.rows[i].f["weight"]
        w == strip(lower(c.v))
        out == ret.rows[i].f["weight"]
    IN  IsStr(c) =>
        /\ unit_of(w) = "none" => out = NA
        /\ (/\ unit_of(w) # "none"
            /\ is_numeral(LeadingNumeral(w))
            /\ everyGroup \/ digits_and_dots(w) = LeadingNumeral(w))
           => \E tie \in Ties :
                  out = InKilograms(LeadingNumeral(w), unit_of(w), tie)

\* C7: convert_weight gives every string with a recognised unit the
\* kilograms of its leading numeric magnitude, also when the string holds
\* more than one group of digits, and null to a string without a unit.
C7_LeadingMagnitude ==
    Returned("convert_product_weights") =>
        \A i \in DOMAIN inp.rows : RowConverted(i, TRUE)

\* What the code does: the claim holds of the strings whose digits and
\* decimal points form one group.
OneGroupWeightsConverted ==
    Returned("convert_product_weights") =>
        \A i \in DOMAIN inp.rows : RowConverted(i, FALSE)

\* '500g' gives 0.5, '2kg' gives 2, '3lb' gives 1.36, '3 stone' gives null.
WeightExamples ==
    /\ convert_weight(W(<<"5", "0", "0">>, <<"g">>), "up") = Num(5, 1)
    /\ convert_weight(W(<<"2">>, <<"k", "g">>), "up") = Num(2, 0)
    /\ convert_weight(W(<<"3">>, <<"l", "b">>), "up") = Num(136, 2)
    /\ convert_weight(W(<<"3">>, <<" ", "s", "t", "o", "n", "e">>), "up") = NA

(* ------------------- properties: orders and dates ---------------------- *)

Removable == {"first_name", "last_name", "1"}

\* C9: clean_orders_data returns the columns of its input other than
\* first_name, last_name and 1, in their order, and the rows of its input in
\* their order, every remaining cell unchanged; an input with none of the
\* three columns is returned as it is.
C9_OrdersFrame ==
    Returned("clean_orders_data") =>
        /\ ret.cols = SelectSeq(inp.cols, LAMBDA c : c \notin Removable)
        /\ Len(ret.rows) = Len(inp.rows)
        /\ \A i \in DOMAIN ret.rows :
              /\ ret.rows[i].src = inp.rows[i].src
              /\ DOMAIN ret.rows[i].f = Range(ret.cols)
              /\ \A c \in Range(ret.cols) :
                    ret.rows[i].f[c] = inp.rows[i].f[c]
        /\ Range(inp.cols) \cap Removable = {} => ret = inp

\* The frame [first_name, last_name, 1, order_id, product_id] with rows,
\* returned as [order_id, product_id].
C9_Witness ==
    /\ Returned("clean_orders_data")
    /\ inp.cols = <<"first_name", "last_name", "1", "order_id", "product_id">>
    /\ ret.cols = <<"order_id", "product_id">>
    /\ Len(ret.rows) = MaxRows

HexChars ==
    Digits \cup {"a", "b", "c", "d", "e", "f", "A", "B", "C", "D", "E", "F"}

\* Whether s is 8-4-4-4-12 hexadecimal digits.
IsUuid(s) ==
    /\ Len(s) = 36
    /\ \A i \in 1..36 :
          IF i \in {9, 14, 19, 24} THEN s[i] = "-" ELSE s[i] \in HexChars

\* C10: clean_date_details_data returns exactly the rows of its input that
\* have no missing field and a date_uuid that is a valid UUID.
C10_UuidFilter ==
    Returned("clean_date_details_data") =>
        \A i \in DOMAIN inp.rows :
            InOutput(inp.rows[i].src)
                <=> /\ Complete(inp, inp.rows[i])
                    /\ IsStr(inp.rows[i].f["date_uuid"])
                    /\ IsUuid(inp.rows[i].f["date_uuid"].v)

\* What the code does: exactly the rows with no missing field are returned.
CompleteDateRowsKept ==
    Returned("clean_date_details_data") =>
        \A i \in DOMAIN inp.rows :
            InOutput(inp.rows[i].src) <=> Complete(inp, inp.rows[i])

(* ------------------------ properties: stores -------------------------- *)

\* Whether r is the store row of the example: longitude '12.34', latitude
\* '9.1', staff_numbers '12a', opening_date '2020-05-01', whatever lat holds.
IsExampleStore(r) ==
    /\ r.f["longitude"] = StoreValues.longitude
    /\ r.f["latitude"] = StoreValues.latitude
    /\ r.f["staff_numbers"] = StoreValues.staff12a
    /\ r.f["opening_date"] = StoreValues.opening
    /\ ~IsNA(r.f["address"])

\* C11: the frame clean_store_data returns has no lat column, has latitude
\* as its fourth column (index 3), and holds only staff_numbers made of
\* digits; the example row is in it with staff_numbers '12'.
C11_StoreFrame ==
    Returned("clean_store_data") =>
        /\ "lat" \notin Range(ret.cols)
        /\ Len(ret.cols) >= 4 /\ ret.cols[4] = "latitude"
        /\ \A j \in DOMAIN ret.rows :
              /\ IsStr(ret.rows[j].f["staff_numbers"])
              /\ AllDigits(ret.rows[j].f["staff_numbers"].v)
        /\ \A i \in DOMAIN inp.rows :
              IsExampleStore(inp.rows[i]) =>
                  \E j \in DOMAIN ret.rows :
                      /\ ret.rows[j].src = inp.rows[i].src
                      /\ ret.rows[j].f["staff_numbers"] = StoreValues.staff12

\* What the code does: the columns are returned as they came, and exactly
\* the rows with no missing field are returned, every cell as it was.
CompleteStoreRowsKept ==
    Returned("clean_store_data") =>
        /\ ret.cols = inp.cols
        /\ \A i \in DOMAIN inp.rows :
              InOutput(inp.rows[i].src) <=> Complete(inp, inp.rows[i])
        /\ \A j \in DOMAIN ret.rows : \E i \in DOMAIN inp.rows :
              /\ inp.rows[i].src = ret.rows[j].src
              /\ inp.rows[i].f = ret.rows[j].f

\* The example row with a coordinate in lat is returned with the lat column,
\* latitude at index 6 and staff_numbers '12a'.
ExampleStoreReturnedAsItCame ==
    Returned("clean_store_data") =>
        \A i \in DOMAIN inp.rows :
            (/\ IsExampleStore(inp.rows[i])
             /\ "lat" \in Range(inp.cols)
             /\ inp.rows[i].f["lat"] = StoreValues.latitude)
            => /\ ret.cols[3] = "lat"
               /\ ret.cols[7] = "latitude"
               /\ \E j \in DOMAIN ret.rows :
                     /\ ret.rows[j].src = inp.rows[i].src
                     /\ ret.rows[j].f["staff_numbers"] = StoreValues.staff12a

(* --------------------- properties: every cleaner ---------------------- *)

\* The operations that are handed a frame; the others read self.data.
TakesFrame == {"convert_product_weights", "clean_products_data"}

\* Whether this step leaves the frame handed over as it was: the frame
\* handed to the operation for one that takes a frame, else the frame the
\* constructor was given.
InputLeftAlone == arg' = (IF op' \in TakesFrame THEN inp' ELSE arg)

\* C12: after any cleaning operation returns, the frame the caller handed
\* over has the columns, the column order and the values it had before.
C12_InputUnchanged == [][exc' = "none" => InputLeftAlone]_vars

\* What the code does: every operation other than convert_product_weights
\* leaves the frame handed over as it was.
CopyingCleanersLeaveInput ==
    [][(exc' = "none" /\ op' # "convert_product_weights")
           => InputLeftAlone]_vars

\* convert_product_weights returns the frame it was handed, with the weights
\* converted in that frame.
ConvertReturnsItsArgument ==
    Returned("convert_product_weights") => arg = ret

(* ------------------ properties: malformed weights --------------------- *)

\* Whether the weight cell c, a string, names a unit convert_weight knows
\* and leaves, once everything but digits and decimal points is removed,
\* nothing that float() accepts.
BadNumeral(c) ==
    /\ IsStr(c)
    /\ unit_of(strip(lower(c.v))) # "none"
    /\ ~is_numeral(digits_and_dots(strip(lower(c.v))))

\* C13: convert_product_weights never raises: whatever the weight strings,
\* it returns every row it was given, each string replaced by a number or
\* by null.
C13_NeverRaises ==
    op = "convert_product_weights" =>
        /\ exc = "none"
        /\ Len(ret.rows) = Len(inp.rows)
        /\ \A i \in DOMAIN inp.rows :
              IsStr(inp.rows[i].f["weight"]) =>
                  ret.rows[i].f["weight"].t \in {"num", "na"}

\* What the code does: it raises ValueError exactly when some row's weight
\* names a unit and holds no numeral; nothing is returned then and the
\* frame is left as it was, the other rows unconverted.
RaisesOnBadNumeral ==
    op = "convert_product_weights" =>
        /\ exc = "ValueError"
              <=> \E i \in DOMAIN inp.rows : BadNumeral(inp.rows[i].f["weight"])
        /\ exc = "ValueError" => ret = NoFrame /\ arg = inp
        /\ exc = "none" =>
              \A i \in DOMAIN inp.rows :
                  IsStr(inp.rows[i].f["weight"]) =>
                      ret.rows[i].f["weight"].t \in {"num", "na"}

\* A reachable state: a frame of two rows, one of weight 'g' and one of
\* weight '3lb', has made it raise, the good row lost with the bad one.
BadRowAbortedBatch ==
    /\ op = "convert_product_weights"
    /\ exc = "ValueError"
    /\ Len(inp.rows) = 2
    /\ \E i \in DOMAIN inp.rows : ~BadNumeral(inp.rows[i].f["weight"])

(* ---------------- properties: the two product operations ------------- *)

\* Whether the weight cell c is a string that names a unit and holds a
\* numeral, such as '500g'.
UnitBearing(c) ==
    /\ IsStr(c)
    /\ unit_of(strip(lower(c.v))) # "none"
    /\ is_numeral(digits_and_dots(strip(lower(c.v))))

\* The weight the frame df holds for the row that was at place src.
HasWeight(df, src, weight) ==
    \E j \in DOMAIN df.rows :
        df.rows[j].src = src /\ df.rows[j].f["weight"] = weight

\* A step of the second operation, called on what the first one returned.
SecondOf(first, second) ==
    /\ op = first
    /\ calls = 1
    /\ exc = "none"
    /\ op' = second
    /\ inp' = ret
    /\ exc' = "none"

\* Whether every complete row of the raw frame whose weight is
\* unit-bearing is in the final frame with its kilograms.
KilogramsKept(raw, final) ==
    \A i \in DOMAIN raw.rows :
        (Complete(raw, raw.rows[i]) /\ UnitBearing(raw.rows[i].f["weight"]))
        => \E tie \in Ties :
              HasWeight(final, raw.rows[i].src,
                        convert_weight(raw.rows[i].f["weight"], tie))

\* C14: clean_products_data followed by convert_product_weights, the order
\* of main.py, leaves every product whose raw weight is unit-bearing with
\* its kilograms in the weight column, as the opposite order does.
C14_EitherOrder ==
    [][SecondOf("clean_products_data", "convert_product_weights")
          => KilogramsKept(inp, ret')]_vars

\* What the code does in the opposite order: convert_product_weights
\* followed by clean_products_data keeps the kilograms.
ConvertThenCleanKeepsKilograms ==
    [][SecondOf("convert_product_weights", "clean_products_data")
          => KilogramsKept(inp, ret')]_vars

\* What the code does in the order of main.py: pd.to_numeric has made null
\* every weight that is not a bare numeral before convert_weight sees it,
\* so every unit-bearing weight ends null.
CleanThenConvertLosesWeights ==
    [][SecondOf("clean_products_data", "convert_product_weights")
          => \A i \in DOMAIN inp.rows :
                (/\ Complete(inp, inp.rows[i])
                 /\ UnitBearing(inp.rows[i].f["weight"]))
                => HasWeight(ret', inp.rows[i].src, NA)]_vars

(* ---------------------- properties: connector ------------------------- *)

\* C15: every upload asked with db_type 'local' was written by an engine
\* built from the LOCAL_* credentials and every upload asked with db_type
\* 'source' by one built from the RDS_* credentials, whatever was called
\* before on the connector.
C15_UploadUsesDbType ==
    \A i \in DOMAIN uploaded :
        /\ uploaded[i].db_type = "local" => uploaded[i].db = "LOCAL"
        /\ uploaded[i].db_type = "source" => uploaded[i].db = "RDS"

\* What the code does: the engine is built once, by the first call that
\* needs one, and every upload is written by the engine the connector
\* holds, whatever db_type it names.
UploadUsesHeldEngine ==
    [][/\ (op' # "init_db_engine" /\ engine # "None") => engine' = engine
       /\ uploaded' # uploaded =>
             /\ op' = "upload_to_db"
             /\ uploaded' = Append(uploaded, uploaded'[Len(uploaded')])
             /\ uploaded'[Len(uploaded')].db = engine']_vars

\* An upload on a connector that holds no engine is written by an engine
\* built for the db_type it names.
FirstUploadUsesDbType ==
    [][(uploaded' # uploaded /\ engine = "None") =>
           uploaded'[Len(uploaded')].db
               = creds_of(uploaded'[Len(uploaded')].db_type)]_vars

\* A reachable state: after init_db_engine('source') or list_db_tables, an
\* upload asked for the local database has replaced a table of the source
\* database.
LocalUploadWroteSource ==
    /\ calls = 2
    /\ op = "upload_to_db"
    /\ Len(uploaded) = 1
    /\ uploaded[1].db_type = "local"
    /\ uploaded[1].db = "RDS"

============================================================================
